---- MODULE Spec2Model ----
(***************************************************************************)
(* Model of secrets.py: the secret providers (EnvironmentVariable,         *)
(* Base64EncodedSecret, AWSSecretsManagerSecret) and ChainedSecret.        *)
(*                                                                         *)
(* A Python str is a sequence of code points, bytes a sequence of 0..255.  *)
(* A call's outcome is a record: [kind |-> "return", value |-> v] or       *)
(* [kind |-> "raise", exc |-> class, args |-> tuple of Python values].     *)
(***************************************************************************)
EXTENDS Integers, Sequences, FiniteSets, TLC

VARIABLES
  environ,      \* os.environ: the set variables, name -> str
  heap,         \* the constructed objects, by identity 1..Len(heap)
  handles,      \* number of client handles boto3.client has returned so far
  clientCalls,  \* per object, how often get_client has been invoked on it
  uses,         \* per object, the handles get_secret_value was called on
  last          \* the last operation: what was done and how it ended

vars == <<environ, heap, handles, clientCalls, uses, last>>

(***************************************************************************)
(* Python values are tagged: [type |-> "str", v |-> <<code points>>],      *)
(* [type |-> "object", v |-> identity], [type |-> "type", v |-> class],    *)
(* [type |-> "function", v |-> name], None.                                *)
(***************************************************************************)
Str(s) == [type |-> "str", v |-> s]
Obj(i) == [type |-> "object", v |-> i]
Class(c) == [type |-> "type", v |-> c]
Function(f) == [type |-> "function", v |-> f]
None == [type |-> "NoneType"]

Return(v) == [kind |-> "return", value |-> v]
Raise(e, a) == [kind |-> "raise", exc |-> e, args |-> a]

(***************************************************************************)
(* bytes.decode(): strict UTF-8.                                           *)
(***************************************************************************)
IsCont(b) == b >= 128 /\ b <= 191

\* Length of the well-formed UTF-8 sequence starting at bs[i], 0 if none.
Utf8SeqLen(bs, i) ==
  LET b == bs[i]
      n == Len(bs)
      c(k) == i + k <= n /\ IsCont(bs[i + k])
  IN  IF b <= 127 THEN 1
      ELSE IF b >= 194 /\ b <= 223 THEN (IF c(1) THEN 2 ELSE 0)
      ELSE IF b >= 224 /\ b <= 239 THEN
        (IF c(1) /\ c(2)
            /\ (b = 224 => bs[i + 1] >= 160)
            /\ (b = 237 => bs[i + 1] <= 159)
         THEN 3 ELSE 0)
      ELSE IF b >= 240 /\ b <= 244 THEN
        (IF c(1) /\ c(2) /\ c(3)
            /\ (b = 240 => bs[i + 1] >= 144)
            /\ (b = 244 => bs[i + 1] <= 143)
         THEN 4 ELSE 0)
      ELSE 0

Utf8CodePoint(bs, i, k) ==
  IF k = 1 THEN bs[i]
  ELSE IF k = 2 THEN (bs[i] - 192) * 64 + (bs[i + 1] - 128)
  ELSE IF k = 3 THEN (bs[i] - 224) * 4096 + (bs[i + 1] - 128) * 64 + (bs[i + 2] - 128)
  ELSE (bs[i] - 240) * 262144 + (bs[i + 1] - 128) * 4096
       + (bs[i + 2] - 128) * 64 + (bs[i + 3] - 128)

RECURSIVE Utf8DecodeFrom(_, _, _)
Utf8DecodeFrom(bs, i, acc) ==
  IF i > Len(bs) THEN Return(acc)
  ELSE LET k == Utf8SeqLen(bs, i)
       IN  IF k = 0 THEN Raise("UnicodeDecodeError", <<>>)
           ELSE Utf8DecodeFrom(bs, i + k, Append(acc, Utf8CodePoint(bs, i, k)))

Utf8Decode(bs) == Utf8DecodeFrom(bs, 1, <<>>)

(***************************************************************************)
(* base64.b64decode(s) for a str s, validate=False: the str is encoded as  *)
(* ASCII, then binascii.a2b_base64 runs in its non-strict mode.            *)
(***************************************************************************)
\* table_a2b_base64: the 6-bit value of an alphabet character, 64 otherwise.
B64Value(ch) ==
  IF ch >= 65 /\ ch <= 90 THEN ch - 65
  ELSE IF ch >= 97 /\ ch <= 122 THEN ch - 71
  ELSE IF ch >= 48 /\ ch <= 57 THEN ch + 4
  ELSE IF ch = 43 THEN 62
  ELSE IF ch = 47 THEN 63
  ELSE 64

IsPad(ch) == ch = 61

RECURSIVE A2bBase64(_, _, _, _, _, _)
A2bBase64(s, i, quad, left, pads, out) ==
  IF i > Len(s) THEN
    IF quad = 0 THEN Return(out)
    ELSE IF quad = 1 THEN Raise("binascii.Error", <<>>)
    ELSE Raise("binascii.Error", <<>>)
  ELSE
    LET ch == s[i]
        v == B64Value(ch)
    IN  IF IsPad(ch) THEN
          IF quad >= 2 /\ quad + pads + 1 >= 4 THEN Return(out)
          ELSE A2bBase64(s, i + 1, quad, left, IF quad >= 2 THEN pads + 1 ELSE pads, out)
        ELSE IF v >= 64 THEN A2bBase64(s, i + 1, quad, left, pads, out)
        ELSE IF quad = 0 THEN A2bBase64(s, i + 1, 1, v, 0, out)
        ELSE IF quad = 1 THEN
          A2bBase64(s, i + 1, 2, v % 16, 0, Append(out, left * 4 + (v \div 16)))
        ELSE IF quad = 2 THEN
          A2bBase64(s, i + 1, 3, v % 4, 0, Append(out, left * 16 + (v \div 4)))
        ELSE A2bBase64(s, i + 1, 0, 0, 0, Append(out, left * 64 + v))

IsAscii(s) == \A i \in 1..Len(s) : s[i] <= 127

B64Decode(s) ==
  IF ~IsAscii(s) THEN Raise("ValueError", <<>>)
  ELSE A2bBase64(s, 1, 0, 0, 0, <<>>)

(***************************************************************************)
(* Bounds and the values the operations are tried on.                      *)
(***************************************************************************)
MaxLeaves == 2       \* leaf providers constructed in one run
MaxChains == 1       \* ChainedSecret objects constructed in one run
MaxSteps == 2        \* steps given to one ChainedSecret
MaxClientCalls == 2  \* get_client invocations on one provider

ADMIN_PASSWORD == <<65, 68, 77, 73, 78, 95, 80, 65, 83, 83, 87, 79, 82, 68>>
UNSET_NAME == <<85, 78, 83, 69, 84, 95, 78, 65, 77, 69>>
EnvNames == {ADMIN_PASSWORD, UNSET_NAME}

\* "" and the base64 text "cw==" (of "s")
EnvValues == {<<>>, <<99, 119, 61, 61>>}
\* "w6k=" (of U+00E9) and "/w==" (of the byte 0xFF, which is not UTF-8)
EncodedArgs == {<<119, 54, 107, 61>>, <<47, 119, 61, 61>>}
SecretIds == {<<100, 98>>}
SecretString == <<112, 119>>

\* What the AWS side answers during one access: whether boto3.client can build
\* a client, and what the service holds under the secret id.
Worlds == [client : BOOLEAN, secret : {"string", "binary", "missing"}]

(***************************************************************************)
(* Objects.  An object is [cls |-> class name, dict |-> instance __dict__].*)
(***************************************************************************)
\* EnvironmentVariable.__init__
NewEnvironmentVariable(name) ==
  [cls |-> "EnvironmentVariable", dict |-> [name |-> Str(name)]]

\* Base64EncodedSecret.__init__
NewBase64EncodedSecret(encoded) ==
  [cls |-> "Base64EncodedSecret", dict |-> [encoded |-> encoded]]

\* AWSSecretsManagerSecret.__init__: stores the id and the boto3 module (taken
\* to be installed, so that the import succeeds); no client.
NewAWSSecretsManagerSecret(secret_id) ==
  [cls |-> "AWSSecretsManagerSecret",
   dict |-> [secret_id |-> Str(secret_id), boto3 |-> [type |-> "module", v |-> 0]]]

\* ChainedSecret.__init__: stores the tuple of steps as given, empty or not.
NewChainedSecret(secrets) ==
  [cls |-> "ChainedSecret", dict |-> [secrets |-> secrets]]

\* The names a class (with its bases) defines.
ClassAttrs(cls) ==
  {"get_value", "value", "__str__", "__init__"}
    \cup (IF cls = "AWSSecretsManagerSecret" THEN {"client", "get_client"} ELSE {})
    \cup (IF cls = "EnvironmentVariable" THEN {"Undefined"} ELSE {})

\* Attribute lookup self.<name> finds the name in the instance or in its class.
HasAttr(o, name) == name \in DOMAIN o.dict \/ name \in ClassAttrs(o.cls)

IsBaseSecret(x) == x.type = "object"
IsStr(x) == x.type = "str"
Callable(x) == x.type \in {"type", "function"}

(***************************************************************************)
(* A call runs on a machine state st = [heap, handles, clientCalls, uses,  *)
(* calls] and ends as [out |-> outcome, st |-> machine state].             *)
(***************************************************************************)
Logged(st, fn, self, arg) ==
  [st EXCEPT !.calls = Append(@, [fn |-> fn, self |-> self, arg |-> arg])]

\* os.getenv(name)
Getenv(name) == IF name.v \in DOMAIN environ THEN Str(environ[name.v]) ELSE None

\* A variant that tests the value's truth instead of `is None`, so that a
\* variable set to the empty string counts as undefined.
EnvironmentVariableGetValueFalsy(d) ==
  LET value == Getenv(d.name)
  IN  IF value = None \/ value = Str(<<>>)
        THEN Raise("EnvironmentVariable.Undefined", <<d.name>>)
      ELSE Return(value)

\* EnvironmentVariable.get_value
EnvironmentVariableGetValue(d) ==
  LET value == Getenv(d.name)
  IN  IF value = None THEN Raise("EnvironmentVariable.Undefined", <<d.name>>)
      ELSE Return(value)

\* Base64EncodedSecret.get_value
Base64EncodedSecretGetValue(d) ==
  IF ~IsStr(d.encoded) THEN Raise("TypeError", <<>>)
  ELSE LET decoded == B64Decode(d.encoded.v)
       IN  IF decoded.kind = "raise" THEN decoded
           ELSE LET value == Utf8Decode(decoded.value)
                IN  IF value.kind = "raise" THEN value
                    ELSE Return(Str(value.value))

\* AWSSecretsManagerSecret.get_client: boto3.client("secretsmanager")
GetClient(i, st, w) ==
  LET st1 == [st EXCEPT !.clientCalls[i] = @ + 1]
  IN  IF w.client
      THEN [out |-> Return([type |-> "client", v |-> st.handles + 1]),
            st |-> Logged([st1 EXCEPT !.handles = @ + 1], "get_client", i, None)]
      ELSE [out |-> Raise("NoRegionError", <<>>),
            st |-> Logged(st1, "get_client", i, None)]

\* A variant with a plain property: every access builds a client, none is kept.
ClientUncached(i, st, w) == GetClient(i, st, w)

\* AWSSecretsManagerSecret.client, a cached_property: the handle stored in the
\* instance if there is one, else get_client's result, stored when it returns.
Client(i, st, w) ==
  IF "client" \in DOMAIN st.heap[i].dict
  THEN [out |-> Return(st.heap[i].dict.client), st |-> st]
  ELSE LET r == GetClient(i, st, w)
       IN  IF r.out.kind = "raise" THEN r
           ELSE [out |-> r.out,
                 st |-> [r.st EXCEPT !.heap[i].dict =
                           [k \in DOMAIN @ \cup {"client"} |->
                              IF k = "client" THEN r.out.value ELSE @[k]]]]

\* client.get_secret_value(SecretId=...) and the ["SecretString"] lookup
AWSSecretsManagerSecretGetValue(i, st, w) ==
  LET c == Client(i, st, w)
  IN  IF c.out.kind = "raise" THEN c
      ELSE LET st1 == Logged([c.st EXCEPT !.uses[i] = @ \cup {c.out.value.v}],
                             "get_secret_value", c.out.value.v,
                             c.st.heap[i].dict.secret_id)
           IN  IF w.secret = "missing"
               THEN [out |-> Raise("ResourceNotFoundException", <<>>), st |-> st1]
               ELSE IF w.secret = "binary"
               THEN [out |-> Raise("KeyError", <<>>), st |-> st1]
               ELSE [out |-> Return(Str(SecretString)), st |-> st1]

\* What a callable step returns for the running value: a class constructs its
\* instance (not kept after the call), the function "failing" raises.
CallStep(secret, value) ==
  IF secret.type = "type" /\ secret.v = "Base64EncodedSecret"
    THEN Return(NewBase64EncodedSecret(value))
  ELSE IF secret.type = "type" /\ secret.v = "EnvironmentVariable"
    THEN Return([cls |-> "EnvironmentVariable", dict |-> [name |-> value]])
  ELSE Raise("RuntimeError", <<>>)

Unbound == [type |-> "unbound"]

RECURSIVE GetValue(_, _, _), ChainLoop(_, _, _, _)

\* The while loop of ChainedSecret.get_value over the steps still in `secrets`.
ChainLoop(secrets, value, st, w) ==
  IF secrets = <<>> THEN
    IF value = Unbound THEN [out |-> Raise("UnboundLocalError", <<>>), st |-> st]
    ELSE [out |-> Return(value), st |-> st]
  ELSE
    LET secret == Head(secrets)
        rest == Tail(secrets)
    IN  IF IsBaseSecret(secret) THEN
          LET r == GetValue(secret.v, st, w)
          IN  IF r.out.kind = "raise" THEN r
              ELSE ChainLoop(rest, r.out.value, r.st, w)
        ELSE IF Callable(secret) THEN
          IF value = Unbound THEN [out |-> Raise("UnboundLocalError", <<>>), st |-> st]
          ELSE
            LET st1 == Logged(st, "call", 0, secret)
                made == CallStep(secret, value)
            IN  IF made.kind = "raise" THEN [out |-> made, st |-> st1]
                ELSE
                  LET o == made.value
                      out == IF o.cls = "Base64EncodedSecret"
                               THEN Base64EncodedSecretGetValue(o.dict)
                             ELSE IF IsStr(o.dict.name)
                               THEN EnvironmentVariableGetValue(o.dict)
                             ELSE Raise("TypeError", <<>>)
                      st2 == Logged(st1, "get_value", 0, secret)
                  IN  IF out.kind = "raise" THEN [out |-> out, st |-> st2]
                      ELSE ChainLoop(rest, out.value, st2, w)
        ELSE ChainLoop(rest, value, st, w)

\* The name ChainedSecret.get_value reads its steps from.
ChainStepsAttr == "secret"

\* ChainedSecret.get_value
ChainedSecretGetValue(i, st, w) ==
  LET self == st.heap[i]
  IN  IF ~HasAttr(self, ChainStepsAttr)
        THEN [out |-> Raise("AttributeError", <<>>), st |-> st]
      ELSE
        LET secrets == self.dict[ChainStepsAttr]
        IN  IF secrets = <<>> THEN [out |-> Raise("IndexError", <<>>), st |-> st]
            ELSE
              LET secret == Head(secrets)
                  rest == Tail(secrets)
              IN  IF IsBaseSecret(secret) THEN
                    LET r == GetValue(secret.v, st, w)
                    IN  IF r.out.kind = "raise" THEN r
                        ELSE ChainLoop(rest, r.out.value, r.st, w)
                  ELSE IF IsStr(secret) THEN ChainLoop(rest, secret, st, w)
                  ELSE ChainLoop(rest, Unbound, st, w)

\* get_value of the object with identity i, dispatched on its class.
GetValue(i, st, w) ==
  LET self == st.heap[i]
      st1 == Logged(st, "get_value", i, None)
  IN  IF self.cls = "EnvironmentVariable"
        THEN [out |-> EnvironmentVariableGetValue(self.dict), st |-> st1]
      ELSE IF self.cls = "Base64EncodedSecret"
        THEN [out |-> Base64EncodedSecretGetValue(self.dict), st |-> st1]
      ELSE IF self.cls = "AWSSecretsManagerSecret"
        THEN AWSSecretsManagerSecretGetValue(i, st1, w)
      ELSE ChainedSecretGetValue(i, st1, w)

(***************************************************************************)
(* The state machine.                                                      *)
(***************************************************************************)
Ids == 1..Len(heap)
NoCalls == <<>>

Init ==
  /\ environ \in UNION {[D -> EnvValues] : D \in SUBSET EnvNames}
  /\ heap = <<>>
  /\ handles = 0
  /\ clientCalls = <<>>
  /\ uses = <<>>
  /\ last = [op |-> "start", self |-> 0, out |-> Return(None), calls |-> NoCalls]

NumChains == Cardinality({i \in Ids : heap[i].cls = "ChainedSecret"})
NumLeaves == Len(heap) - NumChains

Allocate(o) ==
  /\ IF o.cls = "ChainedSecret" THEN NumChains < MaxChains ELSE NumLeaves < MaxLeaves
  /\ heap' = Append(heap, o)
  /\ clientCalls' = Append(clientCalls, 0)
  /\ uses' = Append(uses, {})
  /\ last' = [op |-> "new", self |-> Len(heap) + 1, out |-> Return(None),
              calls |-> NoCalls]
  /\ UNCHANGED <<environ, handles>>

\* EnvironmentVariable(name)
ConstructEnvironmentVariable == \E name \in EnvNames : Allocate(NewEnvironmentVariable(name))

\* Base64EncodedSecret(encoded)
ConstructBase64EncodedSecret ==
  \E encoded \in EncodedArgs : Allocate(NewBase64EncodedSecret(Str(encoded)))

\* AWSSecretsManagerSecret(secret_id)
ConstructAWSSecretsManagerSecret ==
  \E id \in SecretIds : Allocate(NewAWSSecretsManagerSecret(id))

\* The values a step of a new chain is drawn from.
StepValues ==
  {Str(s) : s \in EnvValues \ {<<>>}} \cup {Obj(i) : i \in Ids}
    \cup {Class("Base64EncodedSecret"), Function("failing")}

StepLists == UNION {[1..n -> StepValues] : n \in 0..MaxSteps}

\* ChainedSecret(*secrets)
ConstructChainedSecret == \E secrets \in StepLists : Allocate(NewChainedSecret(secrets))

\* BaseSecret.value on object i: one get_value call, its result handed on.
Value(i) ==
  /\ i \in Ids
  /\ (heap[i].cls = "AWSSecretsManagerSecret" /\ "client" \notin DOMAIN heap[i].dict)
       => clientCalls[i] < MaxClientCalls
  /\ \E w \in Worlds :
       LET r == GetValue(i, [heap |-> heap, handles |-> handles,
                             clientCalls |-> clientCalls, uses |-> uses,
                             calls |-> NoCalls], w)
       IN  /\ heap' = r.st.heap
           /\ handles' = r.st.handles
           /\ clientCalls' = r.st.clientCalls
           /\ uses' = r.st.uses
           /\ last' = [op |-> "value", self |-> i, out |-> r.out, calls |-> r.st.calls]
  /\ UNCHANGED environ

AccessValue == \E i \in Ids : Value(i)

\* The process environment changes (outside the module): a variable is set.
Putenv ==
  /\ \E name \in EnvNames, v \in EnvValues :
       environ' = [k \in DOMAIN environ \cup {name} |-> IF k = name THEN v ELSE environ[k]]
  /\ environ' # environ
  /\ last' = [op |-> "putenv", self |-> 0, out |-> Return(None), calls |-> NoCalls]
  /\ UNCHANGED <<heap, handles, clientCalls, uses>>

\* The process environment changes (outside the module): a variable is unset.
Unsetenv ==
  /\ \E name \in DOMAIN environ :
       environ' = [k \in DOMAIN environ \ {name} |-> environ[k]]
  /\ last' = [op |-> "unsetenv", self |-> 0, out |-> Return(None), calls |-> NoCalls]
  /\ UNCHANGED <<heap, handles, clientCalls, uses>>

Next ==
  \/ ConstructEnvironmentVariable
  \/ ConstructBase64EncodedSecret
  \/ ConstructAWSSecretsManagerSecret
  \/ ConstructChainedSecret
  \/ AccessValue
  \/ Putenv
  \/ Unsetenv

Spec == Init /\ [][Next]_vars

\* The whole program is Spec.  Its parts, which never interfere (an access
\* changes nothing but the accessed provider's own client handle), are checked
\* separately: the providers that read the process itself, the chain over
\* them, and the secrets-manager provider.
EnvNext ==
  \/ ConstructEnvironmentVariable
  \/ ConstructBase64EncodedSecret
  \/ AccessValue
  \/ Putenv
  \/ Unsetenv

EnvSpec == Init /\ [][EnvNext]_vars

ChainNext ==
  \/ ConstructEnvironmentVariable
  \/ ConstructBase64EncodedSecret
  \/ ConstructChainedSecret
  \/ AccessValue
  \/ Putenv
  \/ Unsetenv

ChainSpec == Init /\ [][ChainNext]_vars

ClientNext ==
  \/ ConstructAWSSecretsManagerSecret
  \/ AccessValue

ClientSpec == Init /\ [][ClientNext]_vars

(***************************************************************************)
(* Vocabulary of the properties.                                           *)
(***************************************************************************)
IsChain(i) == heap[i].cls = "ChainedSecret"
IsAWS(i) == heap[i].cls = "AWSSecretsManagerSecret"
IsEnv(i) == heap[i].cls = "EnvironmentVariable"
IsLeaf(i) == heap[i].cls \in {"EnvironmentVariable", "Base64EncodedSecret"}
Steps(i) == heap[i].dict.secrets

\* The last operation was a .value access on object i.
Accessed(i) == last.op = "value" /\ last.self = i

\* What resolving the leaf i on its own gives in the current environment.
LeafOutcome(i) ==
  IF IsEnv(i) THEN EnvironmentVariableGetValue(heap[i].dict)
  ELSE Base64EncodedSecretGetValue(heap[i].dict)

\* The positions in the last access's call log of get_value calls on object i.
CallsOn(i) ==
  {k \in 1..Len(last.calls) : last.calls[k].fn = "get_value" /\ last.calls[k].self = i}

\* The positions in the last access's call log where a callable step was called.
StepCalls == {k \in 1..Len(last.calls) : last.calls[k].fn = "call"}

\* str.encode(): the UTF-8 bytes of a str of code points below U+0800.
RECURSIVE Utf8Encode(_)
Utf8Encode(s) ==
  IF s = <<>> THEN <<>>
  ELSE LET c == Head(s)
       IN  (IF c <= 127 THEN <<c>> ELSE <<192 + (c \div 64), 128 + (c % 64)>>)
             \o Utf8Encode(Tail(s))

B64Char(v) ==
  IF v < 26 THEN 65 + v ELSE IF v < 52 THEN 71 + v ELSE IF v < 62 THEN v - 4
  ELSE IF v = 62 THEN 43 ELSE 47

\* base64.b64encode, as text
RECURSIVE B64Encode(_)
B64Encode(bs) ==
  IF bs = <<>> THEN <<>>
  ELSE IF Len(bs) = 1 THEN
    <<B64Char(bs[1] \div 4), B64Char((bs[1] % 4) * 16), 61, 61>>
  ELSE IF Len(bs) = 2 THEN
    <<B64Char(bs[1] \div 4), B64Char((bs[1] % 4) * 16 + (bs[2] \div 16)),
      B64Char((bs[2] % 16) * 4), 61>>
  ELSE
    <<B64Char(bs[1] \div 4), B64Char((bs[1] % 4) * 16 + (bs[2] \div 16)),
      B64Char((bs[2] % 16) * 4 + (bs[3] \div 64)), B64Char(bs[3] % 64)>>
      \o B64Encode(SubSeq(bs, 4, Len(bs)))

\* "", "s", U+00E9, and the two together
PlainTexts == {<<>>, <<115>>, <<233>>, <<115, 233>>}

(***************************************************************************)
(* C1.  For a chain [Instance(A), Instance(B)] whose A resolves, a .value  *)
(* access ends as B's own resolution does, and A's get_value has been      *)
(* called exactly once in that access, before B's.                         *)
(***************************************************************************)
C1_InstanceOverride ==
  \A c \in Ids :
    (/\ IsChain(c) /\ Accessed(c)
     /\ Len(Steps(c)) = 2
     /\ IsBaseSecret(Steps(c)[1]) /\ IsBaseSecret(Steps(c)[2])
     /\ Steps(c)[1].v # Steps(c)[2].v
     /\ IsLeaf(Steps(c)[1].v) /\ IsLeaf(Steps(c)[2].v)
     /\ LeafOutcome(Steps(c)[1].v).kind = "return")
    => /\ last.out = LeafOutcome(Steps(c)[2].v)
       /\ Cardinality(CallsOn(Steps(c)[1].v)) = 1
       /\ \A k \in CallsOn(Steps(c)[1].v), m \in CallsOn(Steps(c)[2].v) : k < m

(***************************************************************************)
(* C2.  For a chain [Literal(X), Transform(f)], a .value access ends as    *)
(* resolving f(X) does, f having been called exactly once.                 *)
(***************************************************************************)
C2_LiteralTransform ==
  \A c \in Ids :
    (/\ IsChain(c) /\ Accessed(c)
     /\ Len(Steps(c)) = 2
     /\ IsStr(Steps(c)[1])
     /\ Steps(c)[2] = Class("Base64EncodedSecret"))
    => /\ last.out = Base64EncodedSecretGetValue([encoded |-> Steps(c)[1]])
       /\ Cardinality(StepCalls) = 1

(***************************************************************************)
(* C3.  For a chain of the single step Literal(L), a .value access returns *)
(* exactly L and calls get_value on no other object.                       *)
(***************************************************************************)
C3_SingleLiteral ==
  \A c \in Ids :
    (IsChain(c) /\ Accessed(c) /\ Len(Steps(c)) = 1 /\ IsStr(Steps(c)[1]))
    => /\ last.out = Return(Steps(c)[1])
       /\ \A k \in 1..Len(last.calls) :
            last.calls[k].fn = "get_value" => last.calls[k].self = c

(***************************************************************************)
(* C4.  No ChainedSecret object with an empty step list ever exists:       *)
(* construction with zero steps is rejected.                               *)
(***************************************************************************)
C4_NoEmptyChain == \A c \in Ids : IsChain(c) => Steps(c) # <<>>

(***************************************************************************)
(* C5.  When the first step of a chain is an Instance whose resolution     *)
(* fails, a .value access on the chain ends in that same error.            *)
(***************************************************************************)
C5_StepErrorPropagates ==
  \A c \in Ids :
    (/\ IsChain(c) /\ Accessed(c)
     /\ Steps(c) # <<>>
     /\ IsBaseSecret(Head(Steps(c)))
     /\ IsLeaf(Head(Steps(c)).v)
     /\ LeafOutcome(Head(Steps(c)).v).kind = "raise")
    => last.out = LeafOutcome(Head(Steps(c)).v)

(***************************************************************************)
(* C6.  AWSSecretsManagerSecret's client handle.                           *)
(***************************************************************************)
HasClient(i) == "client" \in DOMAIN heap[i].dict

\* The last access called get_client.
CalledGetClient == \E k \in 1..Len(last.calls) : last.calls[k].fn = "get_client"

\* C6 as stated: on every provider instance no client exists before the first
\* resolve, get_client has been invoked at most once, every resolve has used
\* the same handle, and no two instances have used the same handle.
C6_GetClientAtMostOnce ==
  \A i \in Ids : IsAWS(i) =>
    /\ (clientCalls[i] = 0 => ~HasClient(i))
    /\ clientCalls[i] <= 1
    /\ Cardinality(uses[i]) <= 1
    /\ \A j \in Ids \ {i} : IsAWS(j) => uses[i] \cap uses[j] = {}

\* One step of the program, as C6 (amended) constrains it.
C6_ClientStep ==
  /\ \A i \in (1..Len(heap')) \ Ids :
       heap'[i].cls = "AWSSecretsManagerSecret" =>
         "client" \notin DOMAIN heap'[i].dict /\ clientCalls'[i] = 0 /\ uses'[i] = {}
  /\ \A i \in Ids : IsAWS(i) =>
       /\ HasClient(i) =>
            /\ clientCalls'[i] = clientCalls[i]
            /\ heap'[i].dict = heap[i].dict
            /\ uses'[i] = {heap[i].dict.client.v}
       /\ (~HasClient(i) /\ last'.op = "value" /\ last'.self = i) =>
            /\ clientCalls'[i] = clientCalls[i] + 1
            /\ uses[i] = {}
       /\ \A j \in Ids \ {i} : IsAWS(j) =>
            /\ uses'[i] \cap uses'[j] = {}
            /\ ("client" \in DOMAIN heap'[i].dict /\ "client" \in DOMAIN heap'[j].dict)
                 => heap'[i].dict.client # heap'[j].dict.client

\* C6 as amended: a provider is constructed without a client; a resolve invokes
\* get_client exactly when the instance holds no handle; once it holds one,
\* get_client is not invoked again, the handle stays, and every resolve uses
\* it; two instances never hold or use the same handle.
C6_ClientMemoized == [][C6_ClientStep]_vars

\* C6 witness: two providers hold handles, and the last access reused the one
\* its provider held.
C6_Witness ==
  \E i, j \in Ids :
    /\ i # j /\ IsAWS(i) /\ IsAWS(j)
    /\ HasClient(i) /\ HasClient(j)
    /\ Accessed(i) /\ ~CalledGetClient
    /\ last.out = Return(Str(SecretString))

(***************************************************************************)
(* C7.  With ADMIN_PASSWORD holding the base64 text of S, a .value access  *)
(* on the chain [EnvironmentVariable("ADMIN_PASSWORD"),                    *)
(* Base64EncodedSecret] returns S.                                         *)
(***************************************************************************)
C7_PasswordRoundTrip ==
  \A c \in Ids :
    (/\ IsChain(c) /\ Accessed(c)
     /\ Len(Steps(c)) = 2
     /\ IsBaseSecret(Steps(c)[1])
     /\ heap[Steps(c)[1].v] = NewEnvironmentVariable(ADMIN_PASSWORD)
     /\ Steps(c)[2] = Class("Base64EncodedSecret"))
    => \A S \in PlainTexts :
         (/\ ADMIN_PASSWORD \in DOMAIN environ
          /\ environ[ADMIN_PASSWORD] = B64Encode(Utf8Encode(S)))
         => last.out = Return(Str(S))

\* One step of the program, as C8 constrains it.
C8_EnvStep ==
  \A i \in Ids :
    (IsEnv(i) /\ last'.op = "value" /\ last'.self = i) =>
      /\ environ' = environ
      /\ LET name == heap[i].dict.name
         IN  last'.out =
               IF name.v \in DOMAIN environ
                 THEN Return(Str(environ[name.v]))
                 ELSE Raise("EnvironmentVariable.Undefined", <<name>>)

(***************************************************************************)
(* C8.  A .value access on EnvironmentVariable(name) raises Undefined(name)*)
(* when name is not in the environment, returns the variable's value (the  *)
(* empty string included) when it is, and leaves the environment as it is. *)
(***************************************************************************)
C8_EnvLookup == [][C8_EnvStep]_vars

\* C8 witness: an access on an unset variable has raised Undefined with its name.
C8_Witness ==
  \E i \in Ids :
    /\ IsEnv(i) /\ Accessed(i)
    /\ heap[i].dict.name.v \notin DOMAIN environ
    /\ last.out = Raise("EnvironmentVariable.Undefined", <<Str(UNSET_NAME)>>)

\* One step of the program, as C9 constrains it.
C9_Step ==
  \A c \in Ids : IsChain(c) =>
    /\ heap'[c] = heap[c]
    /\ (/\ last'.op = "value" /\ last'.self = c
        /\ Steps(c) # <<>>
        /\ IsBaseSecret(Head(Steps(c))))
       => \E k \in 1..Len(last'.calls) :
            /\ last'.calls[k].fn = "get_value"
            /\ last'.calls[k].self = Head(Steps(c)).v

(***************************************************************************)
(* C9.  A .value access never changes a chain's steps, and every access on *)
(* a chain whose first step is an Instance calls that Instance again.      *)
(***************************************************************************)
C9_FreshResolution == [][C9_Step]_vars

(***************************************************************************)
(* C10.  A literal placed after the first step has no effect: the access   *)
(* raises nothing for it and returns what the chain without it returns.    *)
(***************************************************************************)
C10_DownstreamLiteralIgnored ==
  \A c \in Ids :
    (/\ IsChain(c) /\ Accessed(c)
     /\ Len(Steps(c)) = 2
     /\ IsStr(Steps(c)[2]))
    => /\ IsStr(Steps(c)[1]) => last.out = Return(Steps(c)[1])
       /\ (/\ IsBaseSecret(Steps(c)[1])
           /\ IsLeaf(Steps(c)[1].v)
           /\ LeafOutcome(Steps(c)[1].v).kind = "return")
            => last.out = LeafOutcome(Steps(c)[1].v)

====
